---------------------------- MODULE Spec2Model ----------------------------
(***************************************************************************)
(* SATeclipse_calc.py: the obscuration of the solar disk by the Moon.      *)
(*                                                                         *)
(* The program is a set of functions over numpy float64 arrays.  A float   *)
(* is modelled as a binary floating point number m * 2^e with a mantissa   *)
(* of Prec bits (float64 keeps 53), rounded to nearest, ties to even,      *)
(* after every operation, with NaN and the infinities as further values.   *)
(* The exponent is not bounded: no overflow or underflow is modelled.      *)
(* An array is a sequence; the first index is 1 where Python's is 0.       *)
(***************************************************************************)
EXTENDS Integers, Sequences, FiniteSets, TLC

VARIABLES
    pc,      \* "call": the arguments are chosen; "done": the call has ended
    fn,      \* the function that is called
    args,    \* its arguments, by parameter name
    ephem,   \* what astropy answers for each time of the batch
    ret,     \* what the call returned
    raised   \* the exception the call ended with, or "none"

vars == <<pc, fn, args, ephem, ret, raised>>

-----------------------------------------------------------------------------
(* Bounds of the model.                                                    *)

\* Mantissa bits of the modelled floating point format.
Prec == 6
\* The arguments of area_intersect are the floats nearest to k / 2^GridBits,
\* for k in 0 .. MaxGrid.
MaxGrid == 16
\* The longest batch of times, and the longest lat / lon / height sequence.
MaxLen == 2

-----------------------------------------------------------------------------
(* Floating point values.                                                  *)

NaN  == [k |-> "nan", m |-> 0, e |-> 0]
PInf == [k |-> "inf", m |-> 1, e |-> 0]
NInf == [k |-> "inf", m |-> -1, e |-> 0]
Fin(m, e) == [k |-> "fin", m |-> m, e |-> e]
Zero == Fin(0, 0)

IsNaN(x) == x.k = "nan"
IsFinite(x) == x.k = "fin"

Abs(n) == IF n < 0 THEN -n ELSE n
Sign(n) == IF n < 0 THEN -1 ELSE IF n > 0 THEN 1 ELSE 0

RECURSIVE BitLength(_)
BitLength(n) == IF n = 0 THEN 0 ELSE 1 + BitLength(n \div 2)

\* The float nearest to n * 2^e, ties to the even mantissa; the mantissa of a
\* nonzero float is normalised to Prec bits.
Round(n, e) ==
    IF n = 0 THEN Zero
    ELSE LET a  == Abs(n)
             len == BitLength(a)
         IN  IF len <= Prec
             THEN Fin(Sign(n) * a * 2^(Prec - len), e - (Prec - len))
             ELSE LET sh   == len - Prec
                      q    == a \div 2^sh
                      rem  == a % 2^sh
                      half == 2^(sh - 1)
                      up   == rem > half \/ (rem = half /\ q % 2 = 1)
                      q1   == IF up THEN q + 1 ELSE q
                  IN  IF q1 = 2^Prec
                      THEN Fin(Sign(n) * 2^(Prec - 1), e + sh + 1)
                      ELSE Fin(Sign(n) * q1, e + sh)

\* An integer as a float.
FromInt(n) == Round(n, 0)

\* Exact comparison of two finite floats: the sign of x - y.
Cmp(x, y) ==
    IF x.m = 0 THEN -Sign(y.m)
    ELSE IF y.m = 0 THEN Sign(x.m)
    ELSE IF Sign(x.m) # Sign(y.m) THEN Sign(x.m)
    ELSE IF x.e = y.e THEN Sign(x.m - y.m)
    \* both normalised to Prec bits and of one sign: the exponent decides
    ELSE IF x.e > y.e THEN Sign(x.m) ELSE -Sign(x.m)

\* The order of the extended reals; every comparison with NaN is false.
Ext(x) == IF x.k = "inf" THEN x.m ELSE 0
FLe(x, y) ==
    /\ ~IsNaN(x) /\ ~IsNaN(y)
    /\ IF x.k = "inf" \/ y.k = "inf" THEN
          \/ Ext(x) < Ext(y)
          \/ (Ext(x) = Ext(y) /\ x.k = y.k /\ x.k = "inf")
          \/ (Ext(x) = Ext(y) /\ x.k = "fin" /\ y.k = "fin")
       ELSE Cmp(x, y) <= 0
FLt(x, y) ==
    /\ ~IsNaN(x) /\ ~IsNaN(y)
    /\ IF x.k = "inf" \/ y.k = "inf" THEN Ext(x) < Ext(y)
       ELSE Cmp(x, y) < 0
FGt(x, y) == FLt(y, x)
FGe(x, y) == FLe(y, x)

FNeg(x) == [x EXCEPT !.m = -x.m]
FAbs(x) == [x EXCEPT !.m = Abs(x.m)]

\* x + y.  A finite operand more than Prec + 2 binary places below the other
\* cannot change the rounded sum.
FAdd(x, y) ==
    IF IsNaN(x) \/ IsNaN(y) THEN NaN
    ELSE IF x.k = "inf" /\ y.k = "inf" THEN (IF x.m = y.m THEN x ELSE NaN)
    ELSE IF x.k = "inf" THEN x
    ELSE IF y.k = "inf" THEN y
    ELSE IF x.m = 0 THEN y
    ELSE IF y.m = 0 THEN x
    ELSE IF x.e - y.e > Prec + 2 THEN x
    ELSE IF y.e - x.e > Prec + 2 THEN y
    ELSE LET lo == IF x.e < y.e THEN x.e ELSE y.e
         IN  Round(x.m * 2^(x.e - lo) + y.m * 2^(y.e - lo), lo)

FSub(x, y) == FAdd(x, FNeg(y))

FMul(x, y) ==
    IF IsNaN(x) \/ IsNaN(y) THEN NaN
    ELSE IF x.k = "inf" \/ y.k = "inf"
         THEN (IF x.m = 0 \/ y.m = 0 THEN NaN
               ELSE IF Sign(x.m) = Sign(y.m) THEN PInf ELSE NInf)
    ELSE Round(x.m * y.m, x.e + y.e)

\* x / y, numpy's true_divide: a division by zero gives an infinity or NaN
\* (and a warning), never an exception.
FDiv(x, y) ==
    IF IsNaN(x) \/ IsNaN(y) THEN NaN
    ELSE IF x.k = "inf"
         THEN (IF y.k = "inf" THEN NaN
               ELSE IF Sign(x.m) * (IF y.m < 0 THEN -1 ELSE 1) > 0
                    THEN PInf ELSE NInf)
    ELSE IF y.k = "inf" THEN Zero
    ELSE IF y.m = 0
         THEN (IF x.m = 0 THEN NaN ELSE IF x.m > 0 THEN PInf ELSE NInf)
    ELSE IF x.m = 0 THEN Zero
    ELSE LET num == Abs(x.m) * 2^(Prec + 2)
             q   == num \div Abs(y.m)
             st  == IF num % Abs(y.m) = 0 THEN 0 ELSE 1
         IN  Round(Sign(x.m) * Sign(y.m) * (2 * q + st),
                   x.e - y.e - (Prec + 2) - 1)

RECURSIVE ISqrt(_)
ISqrt(n) ==
    IF n < 2 THEN n
    ELSE LET s == 2 * ISqrt(n \div 4)
         IN  IF (s + 1) * (s + 1) <= n THEN s + 1 ELSE s

\* np.sqrt: correctly rounded; NaN for a negative argument.
FSqrt(x) ==
    IF IsNaN(x) THEN NaN
    ELSE IF x.k = "inf" THEN (IF x.m > 0 THEN PInf ELSE NaN)
    ELSE IF x.m < 0 THEN NaN
    ELSE IF x.m = 0 THEN Zero
    ELSE LET e0  == x.e - (Prec + 4)
             odd == e0 % 2 = 1
             m1  == (IF odd THEN 2 ELSE 1) * x.m * 2^(Prec + 4)
             ev  == IF odd THEN e0 - 1 ELSE e0
             s   == ISqrt(m1)
             st  == IF s * s = m1 THEN 0 ELSE 1
         IN  Round(2 * s + st, (ev \div 2) - 1)

\* np.arccos, computed in fixed point with AcosBits binary places: the
\* smallest angle in [0, pi/2] whose cosine (a Taylor polynomial) is at most
\* |x|, reflected for a negative x, then rounded to a float.  NaN outside
\* [-1, 1]; arccos(1) is exactly 0.
AcosBits == 14
AcosOne == 2^AcosBits
\* pi and pi/2 with AcosBits binary places.
PiFx == 51472
HalfPiFx == 25736

CosFx(t) ==
    LET t2 == (t * t) \div AcosOne
        c6 == AcosOne - t2 \div 132
        c5 == AcosOne - ((t2 * c6) \div AcosOne) \div 90
        c4 == AcosOne - ((t2 * c5) \div AcosOne) \div 56
        c3 == AcosOne - ((t2 * c4) \div AcosOne) \div 30
        c2 == AcosOne - ((t2 * c3) \div AcosOne) \div 12
    IN  AcosOne - ((t2 * c2) \div AcosOne) \div 2

RECURSIVE AcosFx(_, _, _)
AcosFx(c, lo, hi) ==
    IF hi - lo <= 1 THEN hi
    ELSE LET mid == (lo + hi) \div 2
         IN  IF CosFx(mid) <= c THEN AcosFx(c, lo, mid)
             ELSE AcosFx(c, mid, hi)

\* |x| <= 1 with AcosBits binary places (rounded down).
ToFx(x) ==
    LET sh == x.e + AcosBits
    IN  IF sh >= 0 THEN Abs(x.m) * 2^sh
        ELSE IF -sh > Prec THEN 0
        ELSE Abs(x.m) \div 2^(-sh)

arccos(x) ==
    IF IsNaN(x) \/ x.k = "inf" THEN NaN
    ELSE IF FGt(FAbs(x), FromInt(1)) THEN NaN
    ELSE LET t == AcosFx(ToFx(x), -1, HalfPiFx)
         IN  Round(IF x.m < 0 THEN PiFx - t ELSE t, -AcosBits)

\* np.pi
pi == Round(PiFx, -AcosBits)

-----------------------------------------------------------------------------
(* numpy arrays: [shape, v], the shape () of a scalar or (n,), and the     *)
(* values in order.                                                        *)

Scalar(x) == [shape |-> <<>>, v |-> <<x>>]
Array(s)  == [shape |-> <<Len(s)>>, v |-> s]

\* arr[mask]: the values where the mask is true, in order.
RECURSIVE Masked(_, _)
Masked(s, mask) ==
    IF s = <<>> THEN <<>>
    ELSE (IF Head(mask) THEN <<Head(s)>> ELSE <<>>)
         \o Masked(Tail(s), Tail(mask))

\* The number of true entries among the first i of the mask.
RECURSIVE Rank(_, _)
Rank(mask, i) ==
    IF i = 0 THEN 0 ELSE Rank(mask, i - 1) + (IF mask[i] THEN 1 ELSE 0)

\* arr[mask] = vals: the values where the mask is true are replaced, in
\* order, by those of vals.
Assign(s, mask, vals) ==
    [i \in 1..Len(s) |-> IF mask[i] THEN vals[Rank(mask, i)] ELSE s[i]]

\* def array(val)
array(val) == IF val.shape = <<>> THEN [val EXCEPT !.shape = <<1>>] ELSE val

Sq(x) == FMul(x, x)
Two == FromInt(2)
Half == Round(1, -1)

\* def raw_area(R, r, d), element by element
raw_area(R, r, d) ==
    [i \in 1..Len(d) |->
        LET arg1 == FDiv(FSub(FAdd(Sq(d[i]), Sq(r[i])), Sq(R[i])),
                         FMul(FMul(Two, d[i]), r[i]))
            arg2 == FDiv(FSub(FAdd(Sq(d[i]), Sq(R[i])), Sq(r[i])),
                         FMul(FMul(Two, d[i]), R[i]))
            f1   == FAdd(FAdd(FNeg(d[i]), r[i]), R[i])
            f2   == FSub(FAdd(d[i], r[i]), R[i])
            f3   == FAdd(FSub(d[i], r[i]), R[i])
            f4   == FAdd(FAdd(d[i], r[i]), R[i])
        IN  FSub(FAdd(FMul(Sq(r[i]), arccos(arg1)),
                      FMul(Sq(R[i]), arccos(arg2))),
                 FMul(Half, FSqrt(FMul(FMul(FMul(f1, f2), f3), f4))))]

\* The masks of area_intersect, for arrays of one shape.
\* (inset_strict: inset with < for <=.)
inset_strict(r_sun, r_moon, d) ==
    [i \in 1..Len(d) |-> FLt(d[i], FAbs(FSub(r_sun[i], r_moon[i])))]
intersect(r_sun, r_moon, d) ==
    [i \in 1..Len(d) |-> FLe(d[i], FAdd(r_sun[i], r_moon[i]))]
inset(r_sun, r_moon, d) ==
    [i \in 1..Len(d) |-> FLe(d[i], FAbs(FSub(r_sun[i], r_moon[i])))]
tf_none(r_sun, r_moon, d) ==
    [i \in 1..Len(d) |-> ~intersect(r_sun, r_moon, d)[i]]
tf_annular(r_sun, r_moon, d) ==
    [i \in 1..Len(d) |->
        inset(r_sun, r_moon, d)[i] /\ FGt(r_sun[i], r_moon[i])]
tf_total(r_sun, r_moon, d) ==
    [i \in 1..Len(d) |->
        inset(r_sun, r_moon, d)[i] /\ FLe(r_sun[i], r_moon[i])]
tf_partial(r_sun, r_moon, d) ==
    [i \in 1..Len(d) |->
        ~(\/ tf_none(r_sun, r_moon, d)[i]
          \/ tf_annular(r_sun, r_moon, d)[i]
          \/ tf_total(r_sun, r_moon, d)[i])]

\* The value of the annular branch for one element.
\* (annular_area_annulus: the area of the annulus in its place.)
annular_area_annulus(rs, rm) == FSub(FMul(pi, Sq(rs)), FMul(pi, Sq(rm)))
annular_area(rs, rm) ==
    FSub(FMul(pi, Sq(rs)), FSub(FMul(pi, Sq(rs)), FMul(pi, Sq(rm))))
\* The value of the total branch for one element.
total_area(rm) == FMul(pi, Sq(rm))

\* def area_intersect(r_sun, r_moon, d): the arguments are numpy arrays or
\* scalars of one shape; the array A is returned.
area_intersect(r_sun, r_moon, d) ==
    LET rs == array(r_sun).v
        rm == array(r_moon).v
        dd == array(d).v
        n  == Len(rs)
        A0 == [i \in 1..n |-> NaN]
        A1 == [i \in 1..n |-> IF tf_none(rs, rm, dd)[i] THEN Zero ELSE A0[i]]
        A2 == [i \in 1..n |-> IF tf_annular(rs, rm, dd)[i]
                               THEN annular_area(rs[i], rm[i]) ELSE A1[i]]
        A3 == [i \in 1..n |-> IF tf_total(rs, rm, dd)[i]
                               THEN total_area(rm[i]) ELSE A2[i]]
        tf == tf_partial(rs, rm, dd)
    IN  Array(Assign(A3, tf, raw_area(Masked(rs, tf), Masked(rm, tf),
                                      Masked(dd, tf))))

-----------------------------------------------------------------------------
(* A call of area_intersect with scalar arguments.                         *)

GridBits == 3
Grid == {Round(k, -GridBits) : k \in 0..MaxGrid}

InitArea ==
    /\ pc = "call"
    /\ fn = "area_intersect"
    /\ args \in [r_sun : Grid, r_moon : Grid, d : Grid]
    /\ ephem = <<>>
    /\ ret = <<>>
    /\ raised = "none"

AreaIntersect ==
    /\ pc = "call"
    /\ fn = "area_intersect"
    /\ ret' = area_intersect(Scalar(args.r_sun), Scalar(args.r_moon),
                             Scalar(args.d))
    /\ pc' = "done"
    /\ UNCHANGED <<fn, args, ephem, raised>>

NextArea == AreaIntersect
SpecArea == InitArea /\ [][NextArea]_vars

-----------------------------------------------------------------------------
(* A call of apparent_size.  Lengths are in km.                            *)

\* constants.R_sun and R_moon = 1737.1 * u.km
R_sun  == FromInt(695700)
R_moon == Round(27794, -4)

\* Quantity.to: the value times the scale of the unit conversion.
\* radian -> arcmin (u.dimensionless_angles()): 10800 / pi = 3437.7467...
RadToArcmin == Round(880063, -8)
\* arcmin -> degree: 1 / 60
ArcminToDegree == FDiv(FromInt(1), FromInt(60))

\* def apparent_size(R, distance)
apparent_size(R, distance) == FMul(FDiv(R, distance), RadToArcmin)

\* The distances apparent_size is called with: multiples of DistStep km,
\* zero and negative ones among them.
DistStep == 25000
DistGrid == {FromInt(k * DistStep) : k \in (-MaxGrid)..MaxGrid}

InitSize ==
    /\ pc = "call"
    /\ fn = "apparent_size"
    /\ args \in [R : {R_sun, R_moon}, distance : DistGrid]
    /\ ephem = <<>>
    /\ ret = <<>>
    /\ raised = "none"

ApparentSize ==
    /\ pc = "call"
    /\ fn = "apparent_size"
    /\ ret' = apparent_size(args.R, args.distance)
    /\ pc' = "done"
    /\ UNCHANGED <<fn, args, ephem, raised>>

NextSize == ApparentSize
SpecSize == InitSize /\ [][NextSize]_vars

-----------------------------------------------------------------------------
(* A call of calculate_obscuration with loc = None, return_dict = False    *)
(* and plot_obscuration = None.  astropy (EarthLocation, Time, AltAz,      *)
(* get_sun, get_moon) is outside the program: for the i-th time of the     *)
(* batch it answers ephem[i], the distances of the Sun and the Moon (km),  *)
(* their separation and the altitude of the Sun (degrees).                 *)

\* arr_0[0] of an empty array raises IndexError.
conform_raises(arr_0, arr_1) ==
    arr_0.shape # arr_1.shape /\ Len(arr_0.v) = 0

\* def conform(arr_0, arr_1)
conform(arr_0, arr_1) ==
    IF arr_0.shape # arr_1.shape
    THEN Array([i \in 1..Len(arr_1.v) |-> FMul(FromInt(1), arr_0.v[1])])
    ELSE arr_0

\* sunsize.to(u.degree).value and moonsize.to(u.degree).value
r_sun_deg(aa) ==
    [i \in 1..Len(aa) |->
        FMul(apparent_size(R_sun, aa[i].sun_distance), ArcminToDegree)]
r_moon_deg(aa) ==
    [i \in 1..Len(aa) |->
        FMul(apparent_size(R_moon, aa[i].moon_distance), ArcminToDegree)]
sep_deg(aa) == [i \in 1..Len(aa) |-> aa[i].sep]

\* A = area_intersect(...); obs = A/(np.pi*r_sun_deg**2)
obs_geometric(aa) ==
    LET A0 == area_intersect(Array(r_sun_deg(aa)), Array(r_moon_deg(aa)),
                             Array(sep_deg(aa)))
    IN  [i \in 1..Len(aa) |->
            FDiv(A0.v[i], FMul(pi, Sq(r_sun_deg(aa)[i])))]

\* tf = sun_aa.alt.value < min_solar_elev_deg; obs[tf] = 0
\* (horizon_cutoff_le: the cutoff with <= for <.)
horizon_cutoff_le(obs, aa, min_solar_elev_deg) ==
    [i \in 1..Len(obs) |->
        IF FLe(aa[i].sun_alt, min_solar_elev_deg) THEN Zero ELSE obs[i]]
horizon_cutoff(obs, aa, min_solar_elev_deg) ==
    [i \in 1..Len(obs) |->
        IF FLt(aa[i].sun_alt, min_solar_elev_deg) THEN Zero ELSE obs[i]]

\* if len(obs) == 1: obs = float(obs)
\* (squeeze_never: the array returned as it is.)
squeeze_never(obs) == Array(obs)
squeeze(obs) == IF Len(obs) = 1 THEN Scalar(obs[1]) ELSE Array(obs)

\* def calculate_obscuration(date_time, lat, lon, height, ...): the value
\* returned when no exception is raised.
calculate_obscuration(date_time, lat, lon, height, min_solar_elev_deg, aa) ==
    LET date_time1 == array(date_time)
        lat1    == conform(array(lat), date_time1)
        lon1    == conform(array(lon), date_time1)
        height1 == conform(array(height), date_time1)
    IN  squeeze(horizon_cutoff(obs_geometric(aa), aa, min_solar_elev_deg))

\* The exception calculate_obscuration ends with, or "none".
calculate_obscuration_raises(date_time, lat, lon, height) ==
    IF \/ conform_raises(array(lat), array(date_time))
       \/ conform_raises(array(lon), array(date_time))
       \/ conform_raises(array(height), array(date_time))
    THEN "IndexError" ELSE "none"

CalculateObscuration ==
    /\ pc = "call"
    /\ fn = "calculate_obscuration"
    /\ raised' = calculate_obscuration_raises(args.date_time, args.lat,
                                              args.lon, args.height)
    /\ ret' = IF raised' = "none"
              THEN calculate_obscuration(args.date_time, args.lat, args.lon,
                                         args.height, args.min_solar_elev_deg,
                                         ephem)
              ELSE <<>>
    /\ pc' = "done"
    /\ UNCHANGED <<fn, args, ephem>>

\* The times of a batch: a single datetime, or a sequence of 1 .. MaxLen.
Times == {Scalar(1)} \cup {Array([i \in 1..n |-> i]) : n \in 1..MaxLen}

\* The answers of astropy.
SunDistance  == {FromInt(149600000)}
MoonDistance == {FromInt(356500), FromInt(406700)}
Separation   == {Zero, Round(1, -2), FromInt(1)}
Altitude     == {FromInt(-8), Zero}
Ephemeris == [sun_distance : SunDistance, moon_distance : MoonDistance,
              sep : Separation, sun_alt : Altitude]
MinElevation == {FromInt(-8), Zero}

\* Calls with scalar lat, lon and height.
InitObsc ==
    /\ pc = "call"
    /\ fn = "calculate_obscuration"
    /\ args \in [date_time : Times,
                  lat : {Scalar(FromInt(37))},
                  lon : {Scalar(FromInt(-122))},
                  height : {Scalar(Zero)},
                  min_solar_elev_deg : MinElevation]
    /\ ephem \in [1..Len(args.date_time.v) -> Ephemeris]
    /\ ret = <<>>
    /\ raised = "none"

NextObsc == CalculateObscuration
SpecObsc == InitObsc /\ [][NextObsc]_vars

\* Calls with lat, lon and height of every shape: a scalar, or a sequence
\* of 0 .. MaxLen values.
Field(x) == {Scalar(x)} \cup
            {Array([i \in 1..n |-> FAdd(x, FromInt(i))]) : n \in 0..MaxLen}
EphemerisFew ==
    [sun_distance : SunDistance, moon_distance : {FromInt(356500)},
     sep : {Zero, Round(1, -2)}, sun_alt : {Zero}]

InitBatch ==
    /\ pc = "call"
    /\ fn = "calculate_obscuration"
    /\ args \in [date_time : Times,
                  lat : Field(FromInt(37)),
                  lon : Field(FromInt(-122)),
                  height : Field(Zero),
                  min_solar_elev_deg : {Zero}]
    /\ ephem \in [1..Len(args.date_time.v) -> EphemerisFew]
    /\ ret = <<>>
    /\ raised = "none"

NextBatch == CalculateObscuration
SpecBatch == InitBatch /\ [][NextBatch]_vars

-----------------------------------------------------------------------------
(* Exact arithmetic on floats, for the statements below: a float that is a *)
(* multiple of 2^u, counted in units of 2^u.                               *)

Min(a, b) == IF a < b THEN a ELSE b
Units(x, u) ==
    IF x.e >= u THEN x.m * 2^(x.e - u) ELSE x.m \div 2^(u - x.e)
\* An exponent u such that the finite floats x, y, z are multiples of 2^u.
Unit3(x, y, z) == Min(x.e, Min(y.e, z.e))

Done == pc = "done"
Returned == pc = "done" /\ raised = "none"

-----------------------------------------------------------------------------
(* area_intersect called with scalars (SpecArea).                          *)

ArgRs == <<args.r_sun>>
ArgRm == <<args.r_moon>>
ArgD  == <<args.d>>
IsNone    == tf_none(ArgRs, ArgRm, ArgD)[1]
IsAnnular == tf_annular(ArgRs, ArgRm, ArgD)[1]
IsTotal   == tf_total(ArgRs, ArgRm, ArgD)[1]
IsPartial == tf_partial(ArgRs, ArgRm, ArgD)[1]

\* C4 (as claimed): for all r_sun, r_moon, d >= 0 the area returned is a
\* finite number, never NaN, with 0 <= area <= pi * max(r_sun, r_moon)^2.
C4_AreaFiniteAndBounded ==
    (Done /\ fn = "area_intersect") =>
        LET a   == ret.v[1]
            big == IF FGe(args.r_sun, args.r_moon)
                   THEN args.r_sun ELSE args.r_moon
        IN  /\ IsFinite(a)
            /\ FLe(Zero, a)
            /\ FLe(a, FMul(pi, Sq(big)))

\* C5 (as claimed): for positive radii and d >= r_sun + r_moon, the disks
\* apart or touching in one point, the area returned is exactly 0.
C5_DisjointOrTouchingIsZero ==
    (Done /\ fn = "area_intersect") =>
        ((/\ FGt(args.r_sun, Zero) /\ FGt(args.r_moon, Zero)
          /\ FGe(args.d, FAdd(args.r_sun, args.r_moon)))
            => ret.v[1] = Zero)

\* C6 (as claimed): whenever one disk contains the other,
\* d <= |r_sun - r_moon|, the area returned is pi * r_moon^2.
C6_ContainedIsMoonDisk ==
    (Done /\ fn = "area_intersect") =>
        (FLe(args.d, FAbs(FSub(args.r_sun, args.r_moon)))
            => ret.v[1] = FMul(pi, Sq(args.r_moon)))

\* C6 (amended): when one disk contains the other, the area returned is
\* pi * r_moon^2 if r_moon >= r_sun (so area_intersect(r, r, 0) = pi * r^2);
\* if r_sun > r_moon it is x - (x - y) in floating point, x = pi * r_sun^2
\* and y = pi * r_moon^2: exactly y when x <= 2 * y, and always within one
\* unit in the last place of x of y (never the area x - y of the annulus,
\* unless that is as near to y).
C6_ContainedIsMoonDiskRounded ==
    (Done /\ fn = "area_intersect") =>
        LET a == ret.v[1]
            x == FMul(pi, Sq(args.r_sun))
            y == FMul(pi, Sq(args.r_moon))
            u == Unit3(a, y, x)
        IN  /\ IsTotal => a = y
            /\ (IsTotal /\ args.r_sun = args.r_moon /\ args.d = Zero)
                   => a = FMul(pi, Sq(args.r_sun))
            /\ IsAnnular =>
                  /\ a = FSub(x, FSub(x, y))
                  /\ FLe(x, FMul(Two, y)) => a = y
                  /\ Abs(Units(a, u) - Units(y, u)) <= 2^(x.e - u)

\* C6 (witness): an annular element whose area differs from pi * r_moon^2 by
\* the rounding of the two subtractions.
C6_Witness ==
    /\ Done /\ fn = "area_intersect"
    /\ IsAnnular
    /\ FGt(args.r_moon, Zero)
    /\ ret.v[1] # FMul(pi, Sq(args.r_moon))

\* C9 (as claimed): for fixed radii the area does not increase with d: for
\* all d1 <= d2, area_intersect(r_sun, r_moon, d1) >=
\* area_intersect(r_sun, r_moon, d2).
C9_AreaNonIncreasing ==
    (Done /\ fn = "area_intersect") =>
        \A d2 \in Grid :
            FLe(args.d, d2) =>
                FGe(ret.v[1],
                    area_intersect(Scalar(args.r_sun), Scalar(args.r_moon),
                                   Scalar(d2)).v[1])

\* The thresholds r_sun + r_moon and r_sun - r_moon of the masks are computed
\* without rounding error.
ExactThresholds ==
    LET u == Unit3(args.r_sun, args.r_moon, args.d)
    IN  /\ Units(FAdd(args.r_sun, args.r_moon), u)
             = Units(args.r_sun, u) + Units(args.r_moon, u)
        /\ Units(FSub(args.r_sun, args.r_moon), u)
             = Units(args.r_sun, u) - Units(args.r_moon, u)

\* In exact arithmetic, in units of 2^u (lengths) and 2^(2u) (squares): the
\* triangle inequalities, and the numerators and divisors of the two
\* arguments of arccos.
ExactTriangle ==
    LET u  == Unit3(args.r_sun, args.r_moon, args.d)
        rs == Units(args.r_sun, u)
        rm == Units(args.r_moon, u)
        dd == Units(args.d, u)
    IN  Abs(rs - rm) < dd /\ dd <= rs + rm
ExactArgsInRange ==
    LET u  == Unit3(args.r_sun, args.r_moon, args.d)
        rs == Units(args.r_sun, u)
        rm == Units(args.r_moon, u)
        dd == Units(args.d, u)
        num1 == dd * dd + rm * rm - rs * rs
        den1 == 2 * dd * rm
        num2 == dd * dd + rs * rs - rm * rm
        den2 == 2 * dd * rs
    IN  /\ den1 > 0 /\ -den1 <= num1 /\ num1 <= den1
        /\ den2 > 0 /\ -den2 <= num2 /\ num2 <= den2

-----------------------------------------------------------------------------
(* apparent_size (SpecSize).                                               *)

\* C8 (as claimed): apparent_size(R, distance) returns R / distance (as an
\* angle) only when distance > 0; for distance = 0 or distance < 0 the call
\* is rejected and never returns an infinite or a negative angle.
C8_ApparentSizeRejectsNonPositiveDistance ==
    (Done /\ fn = "apparent_size") =>
        IF FGt(args.distance, Zero)
        THEN /\ raised = "none"
             /\ ret = FMul(FDiv(args.R, args.distance), RadToArcmin)
        ELSE raised # "none"

-----------------------------------------------------------------------------
(* calculate_obscuration (SpecObsc, SpecBatch).                            *)

\* The number of times of the batch.
BatchLen == Len(args.date_time.v)
\* The obscuration of the i-th time, computed for that time alone.
ObscurationOf(i) ==
    horizon_cutoff(obs_geometric(<<ephem[i]>>), <<ephem[i]>>,
                   args.min_solar_elev_deg)[1]

\* C1 (as claimed): for every element with a finite r_sun > 0, r_moon >= 0
\* and d >= 0 the obscuration, before and after the horizon cutoff, is
\* within [0, 1], in every overlap configuration.
C1_ObscurationInUnitInterval ==
    (Returned /\ fn = "calculate_obscuration") =>
        \A i \in 1..BatchLen :
            (/\ IsFinite(r_sun_deg(ephem)[i])
             /\ FGt(r_sun_deg(ephem)[i], Zero)
             /\ IsFinite(r_moon_deg(ephem)[i])
             /\ FGe(r_moon_deg(ephem)[i], Zero)
             /\ FGe(sep_deg(ephem)[i], Zero))
            => /\ FLe(Zero, obs_geometric(ephem)[i])
               /\ FLe(obs_geometric(ephem)[i], FromInt(1))
               /\ FLe(Zero, ret.v[i])
               /\ FLe(ret.v[i], FromInt(1))

\* C2: every element whose solar altitude is strictly below
\* min_solar_elev_deg is returned as exactly 0, whatever its geometric
\* overlap; every other element keeps area / (pi * r_sun^2) unchanged.
C2_HorizonCutoff ==
    (Returned /\ fn = "calculate_obscuration") =>
        \A i \in 1..BatchLen :
            IF FLt(ephem[i].sun_alt, args.min_solar_elev_deg)
            THEN ret.v[i] = Zero
            ELSE ret.v[i] = obs_geometric(ephem)[i]

\* C2 (witness): a batch with an element below the cutoff whose disks
\* overlap, returned as 0, and an element at the cutoff altitude that keeps
\* an obscuration other than 0.
C2_Witness ==
    /\ Returned /\ fn = "calculate_obscuration"
    /\ \E i \in 1..BatchLen :
          /\ FLt(ephem[i].sun_alt, args.min_solar_elev_deg)
          /\ obs_geometric(ephem)[i] # Zero
          /\ ret.v[i] = Zero
    /\ \E j \in 1..BatchLen :
          /\ ephem[j].sun_alt = args.min_solar_elev_deg
          /\ ret.v[j] # Zero

\* C3 (as claimed): a sequence of N >= 1 times returns a sequence of exactly
\* N values, the i-th computed for the i-th time; a scalar time returns a
\* scalar.
C3_SequenceInSequenceOut ==
    (Returned /\ fn = "calculate_obscuration") =>
        IF args.date_time.shape = <<>>
        THEN ret.shape = <<>> /\ ret.v = <<ObscurationOf(1)>>
        ELSE /\ ret.shape = <<BatchLen>>
             /\ ret.v = [i \in 1..BatchLen |-> ObscurationOf(i)]

\* C3 (amended): a sequence of N >= 2 times returns a sequence of exactly N
\* values, the i-th computed for the i-th time; a scalar time and a sequence
\* of one time both return a scalar.
C3_BatchShape ==
    (Returned /\ fn = "calculate_obscuration") =>
        /\ ret.v = [i \in 1..BatchLen |-> ObscurationOf(i)]
        /\ ret.shape = IF BatchLen = 1 THEN <<>> ELSE <<BatchLen>>

\* C3 (witness): a sequence of several times whose values differ, returned
\* in the order of the times.
C3_Witness ==
    /\ Returned /\ fn = "calculate_obscuration"
    /\ BatchLen >= 2
    /\ ret.shape = <<BatchLen>>
    /\ ret.v[1] # ret.v[2]
    /\ ret.v[1] = ObscurationOf(1)

\* C7 (as claimed): when lat, lon or height is a sequence whose length is
\* neither 1 nor the number of times, the call is rejected instead of
\* returning obscuration values.
Mismatched(field) ==
    /\ field.shape # <<>>
    /\ Len(field.v) # 1
    /\ Len(field.v) # BatchLen
C7_MismatchedLengthsRejected ==
    (Done /\ fn = "calculate_obscuration") =>
        ((Mismatched(args.lat) \/ Mismatched(args.lon)
            \/ Mismatched(args.height))
         => raised # "none")

=============================================================================
